---- MODULE Spec2Model ----
(***************************************************************************)
(* Model of the pushsync protocol (package pushsync): the closest-peer     *)
(* delivery loop pushToClosest, its public entry PushChunkToClosest and    *)
(* the inbound stream handler with its neighbourhood replication.          *)
(*                                                                         *)
(* The collaborators (pricer, streamer, accounting, storer, tagger,        *)
(* topology driver, signer) are recording environments: the calls made to  *)
(* them are recorded, and every result they can return is a                *)
(* nondeterministic choice.  Metrics, logging and tracing are not state.   *)
(***************************************************************************)
EXTENDS Integers, Sequences, FiniteSets, TLC

\* ------------------------------------------------------------ constants
maxPeers == 5
nPeersToPushsync == 3

\* ------------------------------------------------------------ bounds
NPeers == 2
MaxPrice == 2
MaxAddr == 1
NNbrs == 5

Peers == 1..NPeers
Prices == 1..MaxPrice
Addrs == 0..MaxAddr
Nbrs == 1..NNbrs

\* the address of this node (PushSync.address); a peer's address is its id
SelfAddr == 0

NoPeer == 0

\* ------------------------------------------------------------ errors
\* An error value: the statement that made it and the sentinel it wraps (%w).
Err(kind, cause) == [kind |-> kind, cause |-> cause]
Nil == Err("nil", "nil")

ErrWantSelf == "want_self"
ErrNotFound == "not_found"
ErrOther == "opaque"
ErrOutOfDepthReplication == Err("out_of_depth", "out_of_depth")
ErrInvalidChunk == Err("invalid_chunk", "invalid_chunk")

\* errors.Is(err, target)
Is(err, target) == err.cause = target

NoReceipt == [addr |-> -1, sig |-> -1]

\* currentCheapestPeer, err before the re-query of the cheapest peer
NoCheapest == [peer |-> NoPeer, err |-> "unset"]

\* the sending side of the inbound stream is not looked at
NoSender == [pc |-> "none", credited |-> <<>>]

VARIABLES
    mode,           \* "push": PushChunkToClosest called locally; "handler": inbound stream
    pc,             \* position in handler / pushToClosest
    chunk,          \* address of the chunk (ch.Address())
    \* ---- locals of pushToClosest
    i,
    skipPeers,
    lastErr,
    deferFuncs,
    peer,
    receiptPrice,
    returnedPrice,
    currentCheapestPeer,    \* the result (peer, err) of the re-query at line 369
    receipt,
    result,         \* (rr, reterr) of pushToClosest / PushChunkToClosest
    \* ---- collaborators, as the calls made to them
    attempted,      \* the peers pricer.CheapestPeer returned at line 323
    pending,        \* accounting: reservations made and not yet released, <<peer, amount>>
    nReserved,      \* accounting.Reserve calls that succeeded
    nReserveCalls,  \* accounting.Reserve calls made, at line 384
    nReleased,      \* accounting.Release calls
    strayRelease,   \* a Release was made that matches no pending reservation
    credited,       \* accounting.Credit calls: <<peer, amount>>
    delivered,      \* peers a Delivery was written to (WriteMsgWithContext called)
    nStreams,       \* streams opened by NewStream in pushToClosest
    streamer,       \* the stream of the current attempt: "none", "open", "reset"
    lastFail,       \* the latest failure to open a stream, parse the price header,
                    \* write the delivery, read the receipt or match its address
    \* ---- handler
    upstream,       \* p.Address
    price,
    within,         \* what topologyDriver.IsWithinDepth returned: "unknown", "yes", "no"
    forwarded,      \* pushToClosest was called by the handler
    puts,           \* storer.Put results, in call order
    written,        \* receipts written to the inbound stream
    debited,        \* accounting.Debit calls: <<peer, amount>>
    neighbors,      \* the neighbours EachNeighbor enumerated, in order
    launched,       \* replication goroutines started, in order: the peer of each
    neighborErr,    \* the error EachNeighbor returned
    repl,           \* the position of each replication goroutine, as in launched
    sender,         \* the peer's pushToClosest attempt that opened the inbound stream
    closeOps,       \* Reset / FullClose calls on the inbound stream
    herr            \* the handler's return value

iterLocals == <<peer, receiptPrice, returnedPrice, currentCheapestPeer, receipt>>
pushLocals == <<i, skipPeers, lastErr, deferFuncs, iterLocals>>
ledger == <<pending, nReserved, nReserveCalls, nReleased, strayRelease,
           credited>>
observed == <<attempted, delivered, nStreams, lastFail>>
handlerVars == <<upstream, price, within, forwarded, puts, written, debited,
                 neighbors, launched, neighborErr, repl, sender, closeOps, herr>>
vars == <<mode, pc, chunk, pushLocals, result, ledger, streamer, observed,
          handlerVars>>

\* ------------------------------------------------------------ deferFuncs
LogFn == [fn |-> "log", peer |-> NoPeer, amount |-> 0]
CloseFn(p) == [fn |-> "fullclose", peer |-> p, amount |-> 0]
ReleaseFn(p, a) == [fn |-> "release", peer |-> p, amount |-> a]
CancelFn == [fn |-> "cancel", peer |-> NoPeer, amount |-> 0]

\* the accounting.Release calls made by running the deferred functions fs
RECURSIVE ReleasesOf(_)
ReleasesOf(fs) ==
    IF fs = <<>> THEN <<>>
    ELSE (IF Head(fs).fn = "release"
            THEN << <<Head(fs).peer, Head(fs).amount>> >>
            ELSE <<>>) \o ReleasesOf(Tail(fs))

\* accounting: pend without its first reservation equal to r
RECURSIVE Without(_, _)
Without(pend, r) ==
    IF pend = <<>> THEN <<>>
    ELSE IF Head(pend) = r THEN Tail(pend)
    ELSE <<Head(pend)>> \o Without(Tail(pend), r)

Range(s) == {s[k] : k \in 1..Len(s)}

\* accounting: pend after the Release calls rels
RECURSIVE AfterReleases(_, _)
AfterReleases(pend, rels) ==
    IF rels = <<>> THEN pend
    ELSE AfterReleases(Without(pend, Head(rels)), Tail(rels))

RECURSIVE AnyStray(_, _)
AnyStray(pend, rels) ==
    IF rels = <<>> THEN FALSE
    ELSE \/ Head(rels) \notin Range(pend)
         \/ AnyStray(Without(pend, Head(rels)), Tail(rels))

\* the list is emptied without running the deferred functions
defersFnDiscarding ==
    /\ deferFuncs' = <<>>
    /\ UNCHANGED <<nReleased, pending, strayRelease, streamer>>

\* defersFn: run every deferred function in order, then empty the list
defersFn ==
    LET rels == ReleasesOf(deferFuncs) IN
    /\ nReleased' = nReleased + Len(rels)
    /\ pending' = AfterReleases(pending, rels)
    /\ strayRelease' = (strayRelease \/ AnyStray(pending, rels))
    /\ streamer' = "none"
    /\ deferFuncs' = <<>>

\* ------------------------------------------------------------ pushToClosest
ClearIterLocals ==
    /\ peer' = NoPeer
    /\ receiptPrice' = 0
    /\ returnedPrice' = 0
    /\ currentCheapestPeer' = NoCheapest
    /\ receipt' = NoReceipt

\* a return that does not run the deferred functions (no defer defersFn())
ReturnWithoutDefers(rr, reterr) ==
    /\ result' = [receipt |-> rr, err |-> reterr]
    /\ deferFuncs' = <<>>
    /\ UNCHANGED <<pending, nReleased, strayRelease, streamer>>
    /\ i' = 0
    /\ skipPeers' = <<>>
    /\ lastErr' = Nil
    /\ ClearIterLocals
    /\ pc' = IF mode = "push" THEN "done" ELSE "h_pushed"

\* return rr, reterr: the deferred defersFn runs, the frame is dropped and
\* the caller resumes
Return(rr, reterr) ==
    /\ result' = [receipt |-> rr, err |-> reterr]
    /\ defersFn
    /\ i' = 0
    /\ skipPeers' = <<>>
    /\ lastErr' = Nil
    /\ ClearIterLocals
    /\ pc' = IF mode = "push" THEN "done" ELSE "h_pushed"

\* continue: the variables of the loop body go out of scope, i++
Continue ==
    /\ i' = i + 1
    /\ ClearIterLocals
    /\ pc' = "loop"

PushChunkToClosest ==
    /\ mode = "push"
    /\ pc = "start"
    /\ pc' = "loop"
    /\ UNCHANGED <<mode, chunk, pushLocals, result, ledger, streamer, observed, handlerVars>>

\* the code after the loop: the attempt budget is spent
Exhausted ==
    Return(NoReceipt,
           IF lastErr # Nil THEN lastErr ELSE Err("not_found", ErrNotFound))

\* the loop condition is i <= maxPeers
LoopHeadOffByOne ==
    /\ pc = "loop"
    /\ IF i > maxPeers
         THEN Exhausted
         ELSE \E done \in BOOLEAN :
                IF done
                  THEN Return(NoReceipt, Err("ctx", "ctx"))
                  ELSE /\ defersFn
                       /\ pc' = "select"
                       /\ UNCHANGED <<i, skipPeers, lastErr, iterLocals, result>>
    /\ UNCHANGED <<mode, chunk, nReserved, nReserveCalls, credited, observed, handlerVars>>

\* for i := 0; i < maxPeers; i++ { select { case <-ctx.Done(): ... }; defersFn() }
LoopHead ==
    /\ pc = "loop"
    /\ IF i >= maxPeers
         THEN Exhausted
         ELSE \E done \in BOOLEAN :
                IF done
                  THEN Return(NoReceipt, Err("ctx", "ctx"))
                  ELSE /\ defersFn
                       /\ pc' = "select"
                       /\ UNCHANGED <<i, skipPeers, lastErr, iterLocals, result>>
    /\ UNCHANGED <<mode, chunk, nReserved, nReserveCalls, credited, observed, handlerVars>>

\* what pricer.CheapestPeer(addr, skip, false) can return: a peer outside
\* skip, or an error
CheapestPeerResults(skip) ==
    {[peer |-> p, err |-> "nil"] : p \in Peers \ Range(skip)}
      \cup {[peer |-> NoPeer, err |-> e] : e \in {ErrWantSelf, ErrNotFound, ErrOther}}

\* peer, err := ps.pricer.CheapestPeer(...); receiptPrice := ps.pricer.PeerPrice(...)
CheapestPeer ==
    /\ pc = "select"
    /\ \E r \in CheapestPeerResults(skipPeers) :
         IF r.err # "nil"
           THEN /\ Return(NoReceipt, Err("closest_peer", r.err))
                /\ UNCHANGED attempted
           ELSE /\ \E pr \in Prices : receiptPrice' = pr
                /\ peer' = r.peer
                /\ attempted' = attempted \cup {r.peer}
                /\ deferFuncs' = Append(deferFuncs, LogFn)
                /\ pc' = "headers"
                /\ UNCHANGED <<i, skipPeers, lastErr, returnedPrice,
                               currentCheapestPeer, receipt, result, pending,
                               nReleased, strayRelease, streamer>>
    /\ UNCHANGED <<mode, chunk, nReserved, nReserveCalls, credited, delivered, nStreams,
                   lastFail, handlerVars>>

\* headers, err := headerutils.MakePricingHeaders(receiptPrice, ch.Address())
MakePricingHeaders ==
    /\ pc = "headers"
    /\ \E ok \in BOOLEAN :
         IF ok THEN /\ pc' = "newstream"
                    /\ UNCHANGED <<i, iterLocals>>
               ELSE Continue
    /\ UNCHANGED <<mode, chunk, skipPeers, lastErr, deferFuncs, result, ledger, streamer,
                   observed, handlerVars>>

\* streamer, err := ps.streamer.NewStream(ctx, peer, headers, ...)
NewStream ==
    /\ pc = "newstream"
    /\ \E ok \in BOOLEAN :
         IF ok THEN /\ nStreams' = nStreams + 1
                    /\ streamer' = "open"
                    /\ deferFuncs' = Append(deferFuncs, CloseFn(peer))
                    /\ pc' = "parse"
                    /\ UNCHANGED <<i, lastErr, lastFail, iterLocals>>
               ELSE /\ lastErr' = Err("new_stream", ErrOther)
                    /\ lastFail' = Err("new_stream", ErrOther)
                    /\ Continue
                    /\ UNCHANGED <<nStreams, streamer, deferFuncs>>
    /\ UNCHANGED <<mode, chunk, skipPeers, result, ledger, attempted, delivered,
                   handlerVars>>

\* _, returnedPrice, returnedIndex, err := headerutils.ParsePricingResponseHeaders(...)
\* and the comparison returnedPrice != receiptPrice
ParsePricingResponseHeaders ==
    /\ pc = "parse"
    /\ \/ /\ Continue
          /\ lastFail' = Err("parse_headers", ErrOther)
       \/ \E rp \in Prices :
            /\ returnedPrice' = rp
            /\ pc' = IF rp # receiptPrice THEN "notify" ELSE "reserve"
            /\ UNCHANGED <<i, peer, receiptPrice, currentCheapestPeer, receipt,
                           lastFail>>
    /\ UNCHANGED <<mode, chunk, skipPeers, lastErr, deferFuncs, result, ledger, streamer,
                   attempted, delivered, nStreams, handlerVars>>

\* err = ps.pricer.NotifyPeerPrice(peer, returnedPrice, returnedIndex)
NotifyPeerPrice ==
    /\ pc = "notify"
    /\ \E ok \in BOOLEAN :
         IF ok THEN /\ pc' = "requery"
                    /\ UNCHANGED <<i, iterLocals>>
               ELSE Continue
    /\ UNCHANGED <<mode, chunk, skipPeers, lastErr, deferFuncs, result, ledger, streamer,
                   observed, handlerVars>>

\* currentCheapestPeer, err := ps.pricer.CheapestPeer(ch.Address(), skipPeers, false)
RecheckCheapestPeer ==
    /\ pc = "requery"
    /\ \E r \in CheapestPeerResults(skipPeers) : currentCheapestPeer' = r
    /\ pc' = "compare"
    /\ UNCHANGED <<mode, chunk, i, skipPeers, lastErr, deferFuncs, peer,
                   receiptPrice, returnedPrice, receipt, result, ledger, streamer, observed,
                   handlerVars>>

\* the re-queried cheapest peer is not compared
KeepsPeerAlways(r, p) == TRUE

\* the attempt goes on against p after the re-query returned r:
\* if err == nil { if !currentCheapestPeer.Equal(peer) { continue } }
KeepsPeer(r, p) == r.err # "nil" \/ r.peer = p

\* the returned price is not adopted: no receiptPrice = returnedPrice
CompareCheapestPeerKeepsPrice ==
    /\ pc = "compare"
    /\ IF KeepsPeer(currentCheapestPeer, peer)
         THEN /\ pc' = "reserve"
              /\ UNCHANGED <<i, iterLocals>>
         ELSE Continue
    /\ UNCHANGED <<mode, chunk, skipPeers, lastErr, deferFuncs, result, ledger, streamer,
                   observed, handlerVars>>

\* ... continue, or receiptPrice = returnedPrice
CompareCheapestPeer ==
    /\ pc = "compare"
    /\ IF KeepsPeer(currentCheapestPeer, peer)
         THEN /\ receiptPrice' = returnedPrice
              /\ pc' = "reserve"
              /\ UNCHANGED <<i, peer, returnedPrice, currentCheapestPeer, receipt>>
         ELSE Continue
    /\ UNCHANGED <<mode, chunk, skipPeers, lastErr, deferFuncs, result, ledger, streamer,
                   observed, handlerVars>>

\* a failed Reserve is handled like the other failures of the attempt: continue
ReserveContinuesOnFailure ==
    /\ pc = "reserve"
    /\ \E ok \in BOOLEAN :
         IF ok THEN /\ skipPeers' = Append(skipPeers, peer)
                    /\ pending' = Append(pending, <<peer, receiptPrice>>)
                    /\ nReserved' = nReserved + 1
                    /\ nReserveCalls' = nReserveCalls + 1
                    /\ deferFuncs' = deferFuncs \o
                                       <<ReleaseFn(peer, receiptPrice), CancelFn>>
                    /\ pc' = "write"
                    /\ UNCHANGED <<i, lastErr, iterLocals, result, nReleased,
                                   strayRelease, streamer>>
               ELSE /\ skipPeers' = Append(skipPeers, peer)
                    /\ lastErr' = Err("reserve", ErrOther)
                    /\ Continue
                    /\ nReserveCalls' = nReserveCalls + 1
                    /\ UNCHANGED <<nReserved, pending, deferFuncs, result,
                                   nReleased, strayRelease, streamer>>
    /\ UNCHANGED <<mode, chunk, credited, observed, handlerVars>>

\* skipPeers = append(skipPeers, peer); err = ps.accounting.Reserve(ctx, peer, receiptPrice)
Reserve ==
    /\ pc = "reserve"
    /\ \E ok \in BOOLEAN :
         IF ok THEN /\ skipPeers' = Append(skipPeers, peer)
                    /\ pending' = Append(pending, <<peer, receiptPrice>>)
                    /\ nReserved' = nReserved + 1
                    /\ nReserveCalls' = nReserveCalls + 1
                    /\ deferFuncs' = deferFuncs \o
                                       <<ReleaseFn(peer, receiptPrice), CancelFn>>
                    /\ pc' = "write"
                    /\ UNCHANGED <<i, lastErr, iterLocals, result, nReleased,
                                   strayRelease, streamer>>
               ELSE /\ Return(NoReceipt, Err("reserve", ErrOther))
                    /\ nReserveCalls' = nReserveCalls + 1
                    /\ UNCHANGED nReserved
    /\ UNCHANGED <<mode, chunk, credited, observed, handlerVars>>

\* w.WriteMsgWithContext(ctxd, &pb.Delivery{...})
WriteDelivery ==
    /\ pc = "write"
    /\ delivered' = Append(delivered, peer)
    /\ \E ok \in BOOLEAN :
         IF ok THEN /\ pc' = "tag"
                    /\ UNCHANGED <<i, lastErr, lastFail, iterLocals, streamer>>
               ELSE /\ streamer' = "reset"
                    /\ lastErr' = Err("deliver", ErrOther)
                    /\ lastFail' = Err("deliver", ErrOther)
                    /\ Continue
    /\ UNCHANGED <<mode, chunk, skipPeers, deferFuncs, result, ledger, attempted,
                   nStreams, handlerVars>>

\* t, err := ps.tagger.Get(ch.TagID()); if err == nil && t != nil { err = t.Inc(...) }
TagInc ==
    /\ pc = "tag"
    /\ \E tag \in {"none", "inc_ok", "inc_fail"} :
         IF tag = "inc_fail"
           THEN Return(NoReceipt, Err("tag_increment", "nil"))
           ELSE /\ pc' = "read"
                /\ UNCHANGED <<pushLocals, result, pending, nReleased, strayRelease, streamer>>
    /\ UNCHANGED <<mode, chunk, nReserved, nReserveCalls, credited, observed, handlerVars>>

\* the receipt's address is not compared
ReceiptMatchesAny(ch, rc) == TRUE

\* ch.Address().Equal(swarm.NewAddress(receipt.Address))
ReceiptMatches(ch, rc) == rc.addr = ch

\* r.ReadMsgWithContext(ctxd, &receipt) and the check of the receipt's address
ReadReceipt ==
    /\ pc = "read"
    /\ \/ /\ streamer' = "reset"
          /\ lastErr' = Err("receive_receipt", ErrOther)
          /\ lastFail' = Err("receive_receipt", ErrOther)
          /\ Continue
       \/ \E a \in Addrs :
            LET rc == [addr |-> a, sig |-> peer] IN
            IF ReceiptMatches(chunk, rc)
              THEN /\ receipt' = rc
                   /\ pc' = "credit"
                   /\ UNCHANGED <<i, lastErr, lastFail, peer, receiptPrice,
                                  returnedPrice, currentCheapestPeer, streamer>>
              ELSE /\ lastErr' = Err("invalid_receipt", "nil")
                   /\ lastFail' = Err("invalid_receipt", "nil")
                   /\ Continue
                   /\ UNCHANGED streamer
    /\ UNCHANGED <<mode, chunk, skipPeers, deferFuncs, result, ledger, attempted,
                   delivered, nStreams, handlerVars>>

\* err = ps.accounting.Credit(peer, receiptPrice); return &receipt, nil
Credit ==
    /\ pc = "credit"
    /\ credited' = Append(credited, <<peer, receiptPrice>>)
    /\ \E ok \in BOOLEAN :
         IF ok THEN Return(receipt, Nil)
               ELSE Return(NoReceipt, Err("credit", ErrOther))
    /\ UNCHANGED <<mode, chunk, nReserved, nReserveCalls, observed, handlerVars>>

\* ------------------------------------------------------------ handler
\* swarm.DistanceCmp(a, x, y): 1 if x is closer to a than y, -1 if farther,
\* 0 if equally far, in the XOR metric
RECURSIVE Xor(_, _)
Xor(a, b) ==
    IF a = 0 /\ b = 0 THEN 0
    ELSE ((a + b) % 2) + 2 * Xor(a \div 2, b \div 2)

DistanceCmp(a, x, y) ==
    IF Xor(a, x) < Xor(a, y) THEN 1
    ELSE IF Xor(a, x) > Xor(a, y) THEN -1
    ELSE 0

\* the two addresses compared are swapped
UpstreamCloserSwapped(ch, p) == DistanceCmp(ch, SelfAddr, p) = 1

\* if dcmp, _ := swarm.DistanceCmp(chunk, p.Address, ps.address); dcmp == 1
UpstreamCloser(ch, p) == DistanceCmp(ch, p, SelfAddr) = 1

\* the deferred function does not look at err
StreamCloseAlwaysGraceful(err) == "FullClose"

\* the deferred function of handler: Reset on error, FullClose otherwise
StreamCloseAction(err) == IF err # Nil THEN "Reset" ELSE "FullClose"

\* return err from handler: the deferred function closes the inbound stream
HReturn(err) ==
    /\ herr' = err
    /\ closeOps' = Append(closeOps, StreamCloseAction(err))
    /\ pc' = "done"

\* r.ReadMsgWithContext(ctx, &ch)
HandlerReadDelivery ==
    /\ pc = "h_read"
    /\ \E ok \in BOOLEAN :
         IF ok THEN /\ pc' = "h_valid"
                    /\ UNCHANGED <<herr, closeOps>>
               ELSE HReturn(Err("read_delivery", ErrOther))
    /\ UNCHANGED <<mode, chunk, pushLocals, result, ledger, streamer, observed, upstream,
                   price, within, forwarded, puts, written, debited, neighbors, launched,
                   neighborErr, repl, sender>>

\* cac.Valid(chunk) / soc.Valid(chunk); the price from the response headers
\* or from ps.pricer.PriceForPeer
HandlerValidate ==
    /\ pc = "h_valid"
    /\ \E valid \in {"cac", "soc", "none"} :
         IF valid = "none"
           THEN /\ HReturn(ErrInvalidChunk)
                /\ UNCHANGED price
           ELSE /\ \E pr \in Prices : price' = pr
                /\ pc' = IF UpstreamCloser(chunk, upstream) THEN "h_replica" ELSE "h_forward"
                /\ UNCHANGED <<herr, closeOps>>
    /\ UNCHANGED <<mode, chunk, pushLocals, result, ledger, streamer, observed, upstream,
                   within, forwarded, puts, written, debited, neighbors, launched,
                   neighborErr, repl, sender>>

\* the upstream peer is closer: store within depth, else refuse
HandlerReplica ==
    /\ pc = "h_replica"
    /\ \E w \in BOOLEAN :
         IF w THEN /\ within' = "yes"
                   /\ \E ok \in BOOLEAN : puts' = Append(puts, ok)
                   /\ pc' = "h_replica_debit"
                   /\ UNCHANGED <<herr, closeOps>>
              ELSE /\ within' = "no"
                   /\ HReturn(ErrOutOfDepthReplication)
                   /\ UNCHANGED puts
    /\ UNCHANGED <<mode, chunk, pushLocals, result, ledger, streamer, observed, upstream,
                   price, forwarded, written, debited, neighbors, launched,
                   neighborErr, repl, sender>>

\* return ps.accounting.Debit(p.Address, price)
Debit ==
    /\ debited' = Append(debited, <<upstream, price>>)
    /\ \E ok \in BOOLEAN : HReturn(IF ok THEN Nil ELSE Err("debit", ErrOther))
    /\ UNCHANGED <<mode, chunk, pushLocals, result, ledger, streamer, observed, upstream,
                   price, within, forwarded, puts, written, neighbors, launched,
                   neighborErr, repl, sender>>

HandlerReplicaDebit ==
    /\ pc = "h_replica_debit"
    /\ Debit

\* forwarding replication: best-effort store within depth, then pushToClosest
HandlerForward ==
    /\ pc = "h_forward"
    /\ \E w \in BOOLEAN :
         IF w THEN /\ within' = "yes"
                   /\ \E ok \in BOOLEAN : puts' = Append(puts, ok)
              ELSE /\ within' = "no"
                   /\ UNCHANGED puts
    /\ forwarded' = TRUE
    /\ pc' = "loop"
    /\ UNCHANGED <<mode, chunk, pushLocals, result, ledger, streamer, observed, upstream,
                   price, written, debited, neighbors, launched,
                   neighborErr, repl, sender, closeOps, herr>>

\* receipt, err := ps.pushToClosest(ctx, chunk) has returned
HandlerPushed ==
    /\ pc = "h_pushed"
    /\ IF result.err = Nil
         THEN /\ pc' = "h_relay_write"
              /\ UNCHANGED <<herr, closeOps>>
         ELSE IF Is(result.err, ErrWantSelf)
           THEN /\ pc' = "h_store"
                /\ UNCHANGED <<herr, closeOps>>
           ELSE HReturn(Err("handler_push", result.err.cause))
    /\ UNCHANGED <<mode, chunk, pushLocals, result, ledger, streamer, observed, upstream,
                   price, within, forwarded, puts, written, debited, neighbors, launched,
                   neighborErr, repl, sender>>

\* the failure of the store is only logged, as at line 164
StoreFailureIgnored(ok) == FALSE

\* if err != nil { return fmt.Errorf("chunk store: %w", err) }
StoreFailureAborts(ok) == ~ok

\* want self: _, err = ps.storer.Put(ctx, storage.ModePutSync, chunk)
HandlerStore ==
    /\ pc = "h_store"
    /\ \E ok \in BOOLEAN :
         /\ puts' = Append(puts, ok)
         /\ IF StoreFailureAborts(ok)
              THEN HReturn(Err("chunk_store", ErrOther))
              ELSE /\ pc' = "h_neighbors"
                   /\ UNCHANGED <<herr, closeOps>>
    /\ UNCHANGED <<mode, chunk, pushLocals, result, ledger, streamer, observed, upstream,
                   price, within, forwarded, written, debited, neighbors, launched,
                   neighborErr, repl, sender>>

\* the cap is tested with > instead of ==
VisitOffByOne(nb, up, count) ==
    IF nb = up THEN [stop |-> FALSE, launch |-> FALSE]
    ELSE IF count > nPeersToPushsync THEN [stop |-> TRUE, launch |-> FALSE]
    ELSE [stop |-> FALSE, launch |-> TRUE]

\* the function given to EachNeighbor, called for neighbour nb when count
\* replication goroutines were started
Visit(nb, up, count) ==
    IF nb = up THEN [stop |-> FALSE, launch |-> FALSE]
    ELSE IF count = nPeersToPushsync THEN [stop |-> TRUE, launch |-> FALSE]
    ELSE [stop |-> FALSE, launch |-> TRUE]

\* the error of EachNeighbor is returned from the handler
NeighborErrorReturned(e) == e # Nil

\* if err != nil { ps.logger.Tracef("pushsync replication closest peer: %w", err) }:
\* the error of EachNeighbor is logged and the handler goes on
NeighborErrorAborts(e) == FALSE

\* EachNeighbor calls the function for one more neighbour nb (the neighbours
\* are handed out in ascending order): the function skips the upstream peer,
\* asks to stop at the cap, or starts the goroutine for nb and returns
HandlerVisitNeighbor ==
    /\ pc = "h_neighbors"
    /\ \E nb \in Nbrs :
         /\ IF neighbors = <<>> THEN TRUE ELSE nb > neighbors[Len(neighbors)]
         /\ ~Visit(nb, upstream, Len(launched)).stop
         /\ neighbors' = Append(neighbors, nb)
         /\ IF Visit(nb, upstream, Len(launched)).launch
              THEN /\ launched' = Append(launched, nb)
                   /\ repl' = Append(repl, "start")
              ELSE UNCHANGED <<launched, repl>>
    /\ UNCHANGED <<mode, pc, chunk, pushLocals, result, ledger, streamer, observed,
                   upstream, price, within, forwarded, puts, written, debited,
                   neighborErr, sender, closeOps, herr>>

\* err = ps.topologyDriver.EachNeighbor(...) returns: the neighbours are
\* used up, the function asked to stop at neighbour nb, or the enumeration
\* failed; the error is logged
HandlerEachNeighbor ==
    /\ pc = "h_neighbors"
    /\ \/ UNCHANGED neighbors
       \/ \E nb \in Nbrs :
            /\ IF neighbors = <<>> THEN TRUE ELSE nb > neighbors[Len(neighbors)]
            /\ Visit(nb, upstream, Len(launched)).stop
            /\ neighbors' = Append(neighbors, nb)
    /\ \E e \in {Nil, Err("each_neighbor", ErrOther)} :
         /\ neighborErr' = e
         /\ IF NeighborErrorAborts(e)
              THEN HReturn(e)
              ELSE /\ pc' = "h_sign"
                   /\ UNCHANGED <<closeOps, herr>>
    /\ UNCHANGED <<mode, chunk, pushLocals, result, ledger, streamer, observed,
                   upstream, price, within, forwarded, puts, written, debited,
                   launched, repl, sender>>

\* ------------------------------------------------------------ replication
\* The goroutine started for a neighbour (lines 194-248).  Its err is its
\* own variable; its positions are "start", "open" (stream opened, price
\* headers agreed), and the outcomes "failed", "mismatch", "sent".
ReplKeepsHandler ==
    UNCHANGED <<mode, pc, chunk, pushLocals, result, ledger, streamer, observed,
                upstream, price, within, forwarded, puts, written, debited,
                neighbors, launched, neighborErr, sender, closeOps, herr>>

\* where the goroutine stands after the stream was asked for: r is what
\* MakePricingHeaders, NewStream and ParsePricingResponseHeaders did, rp the
\* price the peer returned, compared with the receiptPrice 0
ReplOpened(r, rp) ==
    IF r # "priced" THEN "failed"
    ELSE IF rp # 0 THEN "mismatch"
    ELSE "open"

\* headerutils.MakePricingHeaders(0, ...), ps.streamer.NewStream(ctx, peer, ...),
\* ParsePricingResponseHeaders and returnedPrice != receiptPrice
ReplicationNewStream ==
    /\ \E k \in 1..Len(repl) :
         /\ repl[k] = "start"
         /\ \E o \in {ReplOpened(r, rp) :
                         r \in {"headers_fail", "stream_fail", "parse_fail", "priced"},
                         rp \in 0..MaxPrice} :
              repl' = [repl EXCEPT ![k] = o]
    /\ ReplKeepsHandler

\* w.WriteMsgWithContext(ctx, &pb.Delivery{...}) under timeToWaitForPushsyncToNeighbor
ReplicationWrite ==
    /\ \E k \in 1..Len(repl) :
         /\ repl[k] = "open"
         /\ \E ok \in BOOLEAN :
              repl' = [repl EXCEPT ![k] = IF ok THEN "sent" ELSE "failed"]
    /\ ReplKeepsHandler

\* signature, err := ps.signer.Sign(ch.Address)
HandlerSign ==
    /\ pc = "h_sign"
    /\ \E ok \in BOOLEAN :
         IF ok THEN /\ pc' = "h_receipt_write"
                    /\ UNCHANGED <<herr, closeOps>>
               ELSE HReturn(Err("receipt_signature", ErrOther))
    /\ UNCHANGED <<mode, chunk, pushLocals, result, ledger, streamer, observed, upstream,
                   price, within, forwarded, puts, written, debited, neighbors, launched,
                   neighborErr, repl, sender>>

\* the error of the write is not checked
WriteReceiptUnchecked(rc, next) ==
    /\ \E ok \in BOOLEAN :
         /\ written' = IF ok THEN Append(written, rc) ELSE written
         /\ pc' = next
         /\ UNCHANGED <<herr, closeOps>>
    /\ UNCHANGED <<mode, chunk, pushLocals, result, ledger, streamer, observed, upstream,
                   price, within, forwarded, puts, debited, neighbors, launched,
                   neighborErr, repl, sender>>

\* w.WriteMsgWithContext(ctx, rc) on the inbound stream
WriteReceipt(rc, next) ==
    /\ \E ok \in BOOLEAN :
         IF ok THEN /\ written' = Append(written, rc)
                    /\ pc' = next
                    /\ UNCHANGED <<herr, closeOps>>
               ELSE /\ HReturn(Err("send_receipt", ErrOther))
                    /\ UNCHANGED written
    /\ UNCHANGED <<mode, chunk, pushLocals, result, ledger, streamer, observed, upstream,
                   price, within, forwarded, puts, debited, neighbors, launched,
                   neighborErr, repl, sender>>

\* receipt := pb.Receipt{Address: chunk.Address().Bytes(), Signature: signature}
HandlerReceiptWrite ==
    /\ pc = "h_receipt_write"
    /\ WriteReceipt([addr |-> chunk, sig |-> SelfAddr], "h_receipt_debit")

HandlerReceiptDebit ==
    /\ pc = "h_receipt_debit"
    /\ Debit

\* pass back the receipt
HandlerRelayWrite ==
    /\ pc = "h_relay_write"
    /\ WriteReceipt(result.receipt, "h_relay_debit")

HandlerRelayDebit ==
    /\ pc = "h_relay_debit"
    /\ Debit

InitCommon ==
    /\ chunk \in Addrs
    /\ i = 0
    /\ skipPeers = <<>>
    /\ lastErr = Nil
    /\ deferFuncs = <<>>
    /\ peer = NoPeer
    /\ receiptPrice = 0
    /\ returnedPrice = 0
    /\ currentCheapestPeer = NoCheapest
    /\ receipt = NoReceipt
    /\ result = [receipt |-> NoReceipt, err |-> Nil]
    /\ attempted = {}
    /\ pending = <<>>
    /\ nReserved = 0
    /\ nReserveCalls = 0
    /\ nReleased = 0
    /\ strayRelease = FALSE
    /\ credited = <<>>
    /\ delivered = <<>>
    /\ nStreams = 0
    /\ lastFail = Nil
    /\ streamer = "none"
    /\ price = 0
    /\ within = "unknown"
    /\ forwarded = FALSE
    /\ puts = <<>>
    /\ written = <<>>
    /\ debited = <<>>
    /\ neighbors = <<>>
    /\ launched = <<>>
    /\ neighborErr = Nil
    /\ repl = <<>>
    /\ closeOps = <<>>
    /\ herr = Nil

Init ==
    /\ mode = "push"
    /\ pc = "start"
    /\ upstream = NoPeer
    /\ sender = NoSender
    /\ InitCommon

Next ==
    \/ PushChunkToClosest
    \/ LoopHead
    \/ CheapestPeer
    \/ MakePricingHeaders
    \/ NewStream
    \/ ParsePricingResponseHeaders
    \/ NotifyPeerPrice
    \/ RecheckCheapestPeer
    \/ CompareCheapestPeer
    \/ Reserve
    \/ WriteDelivery
    \/ TagInc
    \/ ReadReceipt
    \/ Credit

Spec == Init /\ [][Next]_vars

InitHandler ==
    /\ mode = "handler"
    /\ pc = "h_read"
    /\ upstream \in Peers
    /\ sender = NoSender
    /\ InitCommon

NextHandler ==
    \/ HandlerReadDelivery
    \/ HandlerValidate
    \/ HandlerReplica
    \/ HandlerReplicaDebit
    \/ HandlerForward
    \/ LoopHead
    \/ CheapestPeer
    \/ MakePricingHeaders
    \/ NewStream
    \/ ParsePricingResponseHeaders
    \/ NotifyPeerPrice
    \/ RecheckCheapestPeer
    \/ CompareCheapestPeer
    \/ Reserve
    \/ WriteDelivery
    \/ TagInc
    \/ ReadReceipt
    \/ Credit
    \/ HandlerPushed
    \/ HandlerStore
    \/ HandlerVisitNeighbor
    \/ HandlerEachNeighbor
    \/ HandlerSign
    \/ HandlerReceiptWrite
    \/ HandlerReceiptDebit
    \/ HandlerRelayWrite
    \/ HandlerRelayDebit

SpecHandler == InitHandler /\ [][NextHandler]_vars

\* pricer.CheapestPeer returns an error at line 323: no peer is attempted
SelectionFails ==
    /\ CheapestPeer
    /\ pc' = "h_pushed"

\* The handler on a node that forwards to no peer, together with the
\* replication goroutines it starts.
NextReplication ==
    \/ HandlerReadDelivery
    \/ HandlerValidate
    \/ HandlerReplica
    \/ HandlerReplicaDebit
    \/ HandlerForward
    \/ LoopHead
    \/ SelectionFails
    \/ HandlerPushed
    \/ HandlerStore
    \/ HandlerVisitNeighbor
    \/ HandlerEachNeighbor
    \/ HandlerSign
    \/ HandlerReceiptWrite
    \/ HandlerReceiptDebit
    \/ ReplicationNewStream
    \/ ReplicationWrite

SpecReplication == InitHandler /\ [][NextReplication]_vars

\* ------------------------------------------------------------ one hop
\* The peer that opened the inbound stream runs pushToClosest against this
\* node: it has reserved, written the Delivery (lines 384-400) and waits for
\* the receipt.  What it reads is what this node's handler has written.
SenderKeepsHandler ==
    UNCHANGED <<mode, pc, chunk, pushLocals, result, ledger, streamer, observed,
                upstream, price, within, forwarded, puts, written, debited,
                neighbors, launched, neighborErr, repl, closeOps, herr>>

\* r.ReadMsgWithContext(ctxd, &receipt) on the sending side: the read fails
\* (stream failure, reset or timeout), or it returns the receipt written
\* by the handler, whose address is then compared
SenderReadReceipt ==
    /\ sender.pc = "read"
    /\ \/ sender' = [sender EXCEPT !.pc = "done"]
       \/ /\ written # <<>>
          /\ sender' = [sender EXCEPT
                          !.pc = IF ReceiptMatches(chunk, written[1])
                                   THEN "credit" ELSE "done"]
    /\ SenderKeepsHandler

\* err = ps.accounting.Credit(peer, receiptPrice) on the sending side
SenderCredit ==
    /\ sender.pc = "credit"
    /\ sender' = [pc |-> "done",
                  credited |-> Append(sender.credited, <<SelfAddr, price>>)]
    /\ SenderKeepsHandler

InitHop ==
    /\ mode = "handler"
    /\ pc = "h_read"
    /\ upstream \in Peers
    /\ sender = [pc |-> "read", credited |-> <<>>]
    /\ InitCommon

NextHop ==
    \/ NextHandler
    \/ SenderReadReceipt
    \/ SenderCredit

SpecHop == InitHop /\ [][NextHop]_vars

\* ------------------------------------------------------------ properties
Returned == mode = "push" /\ pc = "done"
Succeeded == Returned /\ result.err = Nil
Last(q) == q[Len(q)]

\* C1 as stated: when pushToClosest has returned, the number of reservations
\* made equals the number of Release calls plus the number of Credit calls.
C1_ReserveEqualsReleasePlusCredit ==
    Returned => nReserved = nReleased + Len(credited)

\* C2 as stated: a peer selected in one iteration is never selected again in
\* a later iteration of the same call.
C2_NoPeerAttemptedTwice ==
    [][(pc = "select" /\ pc' = "headers") => peer' \notin attempted]_vars

\* C3: when pushToClosest returns a receipt without error, the receipt's
\* address is the chunk's address and Credit was called exactly once, for the
\* peer that sent the receipt.
C3_SuccessReceiptAndSingleCredit ==
    Succeeded => /\ result.receipt.addr = chunk
                 /\ Len(credited) = 1
                 /\ credited[1][1] = result.receipt.sig
                 /\ credited[1][1] = Last(delivered)

C3_Witness ==
    /\ Succeeded
    /\ Len(delivered) = NPeers
    /\ lastFail.kind = "invalid_receipt"

\* C4: when pushToClosest has returned, every reservation made during the
\* call was followed by a Release or a Credit for the same peer.
C4_NoReservationLeftAtReturn ==
    Returned => \A k \in 1..Len(pending) :
                   \E c \in Range(credited) : c[1] = pending[k][1]

C4_Witness ==
    /\ Returned
    /\ result.err.kind \in {"tag_increment", "ctx", "credit"}
    /\ nReserved >= 1
    /\ nReleased = nReserved

\* C5 as stated: when the attempt budget is spent, pushToClosest returns the
\* latest failure to open a stream, parse the price header, write the
\* delivery, read the receipt or match its address, and not-found only if
\* there was none.
ReturnedAfterBudget ==
    /\ Returned
    /\ result.err.kind \in {"new_stream", "deliver", "receive_receipt",
                             "invalid_receipt", "not_found"}

C5_BudgetSpentReturnsLatestFailure ==
    ReturnedAfterBudget =>
        result.err = IF lastFail # Nil THEN lastFail ELSE Err("not_found", ErrNotFound)

\* C7: when the returned price differs from the proposed one and the
\* re-queried cheapest peer is another peer, the iteration ends there: the
\* loop goes back to peer selection, and no Reserve, no delivery and no Credit
\* was or is made for the selected peer in that iteration.
CheapestChanged ==
    /\ pc = "compare"
    /\ currentCheapestPeer.err = "nil"
    /\ currentCheapestPeer.peer # peer

C7_StalePeerAbandoned ==
    [][CheapestChanged =>
         /\ pc' = "loop"
         /\ i' = i + 1
         /\ UNCHANGED <<nReserved, credited, delivered, skipPeers>>
         /\ \A k \in 1..Len(deferFuncs') : deferFuncs'[k].fn # "release"
         /\ \A k \in 1..Len(pending') : pending'[k][1] # peer
         /\ peer \notin Range(delivered)]_vars

C7_Witness ==
    /\ mode = "push"
    /\ CheapestChanged
    /\ returnedPrice # receiptPrice
    /\ i >= 1
    /\ nStreams >= 2

\* the upstream peer is strictly closer to the chunk than this node
Closer == DistanceCmp(chunk, upstream, SelfAddr) = 1

\* C6: a valid chunk from a closer upstream peer, outside the storage depth
\* (IsWithinDepth is asked only for a valid chunk): the handler returns the out-of-depth error and has made no Put, no
\* forwarding attempt and no Debit.
C6_OutOfDepthRejected ==
    (mode = "handler" /\ pc = "done" /\ Closer /\ within = "no")
      => /\ herr = ErrOutOfDepthReplication
         /\ puts = <<>>
         /\ ~forwarded
         /\ debited = <<>>

C6_Witness ==
    /\ pc = "done"
    /\ Closer
    /\ within = "no"
    /\ herr = ErrOutOfDepthReplication

WantSelf == mode = "handler" /\ Is(result.err, ErrWantSelf)

\* C8: in the want-self case every receipt the handler writes upstream has
\* the chunk's address and is written only after the chunk was stored; if
\* that store fails the handler returns an error, with no receipt written,
\* no replication started and no Debit.
C8_TerminalReceiptAfterStore ==
    WantSelf =>
      /\ \A k \in 1..Len(written) : written[k].addr = chunk
      /\ written # <<>> => (puts # <<>> /\ Last(puts))
      /\ (pc = "done" /\ puts # <<>> /\ ~Last(puts))
           => /\ herr.kind = "chunk_store"
              /\ written = <<>>
              /\ launched = <<>>
              /\ debited = <<>>
      /\ (pc \in {"h_neighbors", "h_sign", "h_receipt_write", "h_receipt_debit"})
           => (puts # <<>> /\ Last(puts))

C8_Witness ==
    /\ WantSelf
    /\ pc = "done"
    /\ herr = Nil
    /\ Len(written) = 1
    /\ puts = <<FALSE, TRUE>>

\* C9: one handler invocation starts at most nPeersToPushsync replication
\* attempts, whatever the neighbours enumerated, and none to the upstream peer.
C9_ReplicationBounded ==
    /\ Len(launched) <= nPeersToPushsync
    /\ upstream \notin Range(launched)

C9_Witness ==
    /\ Len(launched) = nPeersToPushsync
    /\ upstream \in Range(neighbors)
    /\ Cardinality(Range(neighbors) \ {upstream}) > nPeersToPushsync

\* C10: a handler invocation that has returned made exactly one closing call
\* on the inbound stream, Reset if and only if it returned an error and
\* FullClose if and only if it returned nil; before it returns it made none.
C10_OneCloseMatchingResult ==
    mode = "handler" =>
      IF pc = "done"
        THEN /\ Len(closeOps) = 1
             /\ closeOps[1] = "Reset" <=> herr # Nil
             /\ closeOps[1] = "FullClose" <=> herr = Nil
        ELSE closeOps = <<>>

C10_Witness ==
    /\ pc = "done"
    /\ closeOps = <<"Reset">>
    /\ herr.kind = "debit"
    /\ Len(written) = 1

\* the positions of a pushToClosest call, from the last of an iteration to
\* the first of the call
PcOrder ==
    <<"credit", "read", "tag", "write", "reserve", "compare", "requery",
      "notify", "parse", "newstream", "headers", "select", "loop", "start">>

PcRank == CHOOSE k \in 1..Len(PcOrder) : PcOrder[k] = pc

\* the steps a pushToClosest call can still take
StepsLeft ==
    IF pc = "done" THEN 0 ELSE (maxPeers - i) * Len(PcOrder) + PcRank

InLoopBody ==
    pc \in {"select", "headers", "newstream", "parse", "notify", "requery",
            "compare", "reserve", "write", "tag", "read", "credit"}

\* the positions of an iteration after accounting.Reserve was called in it
AfterReserve == pc \in {"write", "tag", "read", "credit"}

\* C11: a pushToClosest call returns after at most maxPeers (5) loop
\* iterations when each collaborator call returns: every step of the call
\* (a collaborator call that returned) lowers StepsLeft, which is never
\* negative, so the call takes a bounded number of steps; the loop body runs
\* only while i < maxPeers; at most 5 streams are opened; Reserve is called
\* at most once in an iteration and only on a stream opened in it (as many
\* calls as iterations begun at most, one more after the call of the current
\* iteration, and never more calls than streams opened), so at most 5
\* Reserve calls are made, failed ones included; and the step taken at the
\* loop head after the fifth failed iteration returns an error to the caller.
C11_AtMostMaxPeersIterations ==
    /\ [](/\ i <= maxPeers
          /\ InLoopBody => i < maxPeers
          /\ nStreams <= maxPeers
          /\ nReserveCalls <= nStreams
          /\ nReserveCalls <= maxPeers
          /\ nReserved <= nReserveCalls
          /\ (InLoopBody \/ pc = "loop") =>
                nReserveCalls <= i + (IF AfterReserve THEN 1 ELSE 0)
          /\ StepsLeft >= 0)
    /\ [][StepsLeft' < StepsLeft]_vars
    /\ [][nReserveCalls' # nReserveCalls =>
             /\ pc = "reserve"
             /\ nReserveCalls' = nReserveCalls + 1
             /\ nStreams > nReserveCalls]_vars
    /\ [][(pc = "loop" /\ i = maxPeers) =>
             /\ pc' = "done"
             /\ result'.err # Nil
             /\ result'.receipt = NoReceipt]_vars

\* the fifth iteration has failed after five streams were opened and Reserve
\* was called in as many iterations as there are peers to reserve against
C11_Witness ==
    /\ mode = "push"
    /\ pc = "loop"
    /\ i = maxPeers
    /\ nStreams = maxPeers
    /\ nReserveCalls = NPeers
    /\ nReserved = NPeers

\* C15: at every point of a pushToClosest call at most one reservation is
\* unresolved, and it is the one of the peer being attempted: no reservation
\* is pending from the loop head up to the Reserve call of an iteration, so
\* the reservation of an earlier attempt was resolved before Reserve is
\* called for another peer.
C15_AtMostOneReservationPending ==
    /\ Len(pending) <= 1
    /\ pc \in {"select", "headers", "newstream", "parse", "notify", "requery",
               "compare", "reserve"} => pending = <<>>
    /\ pc \in {"write", "tag", "read", "credit"} =>
          pending = << <<peer, receiptPrice>> >>

\* a second reservation is made after the first one was released
C15_Witness ==
    /\ mode = "push"
    /\ pc = "write"
    /\ nReserved = 2
    /\ nReleased = 1
    /\ Len(pending) = 1

\* C16: when Reserve fails for the selected peer, that step returns the
\* reserve error from pushToClosest: no other peer is selected, no delivery
\* is written, and neither Release nor Credit is called in that step or
\* left registered for the reservation that was not made.
ReserveFailed == result.err.kind = "reserve"

C16_ReserveFailureReturns ==
    /\ [][(pc = "reserve" /\ nReserved' = nReserved) =>
             /\ pc' \in {"done", "h_pushed"}
             /\ result' = [receipt |-> NoReceipt, err |-> Err("reserve", ErrOther)]
             /\ UNCHANGED <<attempted, delivered, credited, nReleased, pending>>
             /\ peer \notin Range(delivered)
             /\ deferFuncs' = <<>>]_vars
    /\ [](ReserveFailed => /\ pc \in {"done", "h_pushed"}
                           /\ nReleased = nReserved
                           /\ pending = <<>>
                           /\ ~strayRelease
                           /\ credited = <<>>)

\* Reserve failed for the second peer, after the attempt against the first
\* one was reserved, delivered and released
C16_Witness ==
    /\ Returned
    /\ ReserveFailed
    /\ nReserved = 1
    /\ nReleased = 1
    /\ Len(delivered) = 1
    /\ Cardinality(attempted) = 2

\* C18: in every attempt of pushToClosest the amount given to Release and to
\* Credit is the amount given to that attempt's Reserve.  The attempt reaches
\* Reserve with receiptPrice equal to the price the peer returned when that
\* price differs from the proposed one (the receiptPrice of the selection),
\* and to the proposed price otherwise; from Reserve on, the one pending
\* reservation, the registered Release and the Credit all carry that amount
\* for that peer, and no Release is made for an amount that was not reserved.
C18_SameAmountReservedReleasedCredited ==
    /\ [][(pc \in {"parse", "compare"} /\ pc' = "reserve") =>
             /\ peer' = peer
             /\ receiptPrice' = IF returnedPrice' # receiptPrice
                                  THEN returnedPrice' ELSE receiptPrice]_vars
    /\ [][pc = "reserve" =>
             /\ pending' \in {pending, Append(pending, <<peer, receiptPrice>>)}
             /\ ReleasesOf(deferFuncs') = pending']_vars
    /\ [][pc = "credit" =>
             /\ credited' = Append(credited, <<peer, receiptPrice>>)
             /\ pending = << <<peer, receiptPrice>> >>]_vars
    /\ [](/\ ~strayRelease
          /\ pc \in {"write", "tag", "read", "credit"} =>
                /\ pending = << <<peer, receiptPrice>> >>
                /\ ReleasesOf(deferFuncs) = pending
          /\ pc = "loop" => ReleasesOf(deferFuncs) = pending)

\* the peer returned a price different from the proposed one, the attempt
\* went on against it and the returned price was reserved and is credited
C18_Witness ==
    /\ mode = "push"
    /\ pc = "credit"
    /\ currentCheapestPeer # NoCheapest
    /\ pending = << <<peer, returnedPrice>> >>
    /\ ReleasesOf(deferFuncs) = pending

\* C17: when the pushToClosest call made by the handler has returned a
\* receipt (no error), the only receipt the handler writes upstream is that
\* receipt, with its Address and Signature; the upstream peer is debited, once
\* and for price, only after that write succeeded; and when the write fails
\* the handler returns the write error and no Debit is made.
ForwardSucceeded ==
    /\ mode = "handler"
    /\ forwarded
    /\ pc \in {"h_relay_write", "h_relay_debit", "done"}
    /\ result.err = Nil

C17_RelayWritesReceiptThenDebits ==
    ForwardSucceeded =>
      /\ result.receipt # NoReceipt
      /\ written \in {<<>>, <<result.receipt>>}
      /\ debited \in {<<>>, << <<upstream, price>> >>}
      /\ debited # <<>> => written = <<result.receipt>>
      /\ pc = "h_relay_write" => written = <<>> /\ debited = <<>>
      /\ pc = "h_relay_debit" => written = <<result.receipt>> /\ debited = <<>>
      /\ (pc = "done" /\ written = <<>>) =>
            herr = Err("send_receipt", ErrOther) /\ debited = <<>>
      /\ (pc = "done" /\ written # <<>>) =>
            debited # <<>> /\ herr \in {Nil, Err("debit", ErrOther)}

\* the relay has passed the downstream receipt back and debited the upstream peer
C17_Witness ==
    /\ ForwardSucceeded
    /\ pc = "done"
    /\ herr = Nil
    /\ written = <<result.receipt>>
    /\ result.receipt.sig \in Peers
    /\ debited = << <<upstream, price>> >>
    /\ Len(credited) = 1

\* C19: in every handler invocation a Debit of the upstream peer is made only
\* after the chunk was stored locally with success or a receipt was written
\* upstream with success in that invocation.
C19_DebitOnlyAfterStoreOrReceipt ==
    (mode = "handler" /\ debited # <<>>) =>
       (TRUE \in Range(puts) \/ written # <<>>)

\* C13: replication goroutines are started only in the want-self case of the
\* handler, only after the chunk was stored and the receipt was signed; an
\* invocation whose signing fails has started none.
C13_ReplicationAfterStoreAndSign ==
    (mode = "handler" /\ launched # <<>>) =>
       /\ WantSelf
       /\ puts # <<>> /\ Last(puts)
       /\ pc \in {"h_receipt_write", "h_receipt_debit", "done"}
       /\ herr.kind # "receipt_signature"

\* The step of pushToClosest that abandons an attempt at the receipt: the
\* read failed or the receipt's address is not the chunk's.
ReceiptRejected == mode = "push" /\ pc = "read" /\ pc' = "loop"

\* What the two cases have in common: the failure becomes the last error,
\* no Credit is made, the Release of the attempt's reservation is registered
\* and is the one pending, and the loop continues with the next iteration,
\* at whose head the reservation is released.
RejectedCommon ==
    /\ lastErr' \in {Err("receive_receipt", ErrOther), Err("invalid_receipt", "nil")}
    /\ lastFail' = lastErr'
    /\ credited' = credited
    /\ i' = i + 1
    /\ pending' = << <<peer, receiptPrice>> >>
    /\ ReleasesOf(deferFuncs') = pending'

\* C14 as stated: a failed read of the receipt and a receipt with another
\* address are handled identically: the stream is reset, the reservation is
\* released, the failure is the last error, no Credit is made and the loop
\* continues.
C14_ReadFailureAndMismatchAlike ==
    /\ [][ReceiptRejected => (RejectedCommon /\ streamer' = "reset")]_vars
    /\ [][(mode = "push" /\ pc = "loop" /\ pc' # "loop") => pending' = <<>>]_vars

\* The handler has stored the chunk in its terminal case.
TerminalStored ==
    /\ WantSelf
    /\ pc \in {"h_neighbors", "h_sign", "h_receipt_write", "h_receipt_debit", "done"}
    /\ puts # <<>> /\ Last(puts)

\* C12: in the terminal case the handler's return value, the receipt it
\* writes upstream and its Debit depend on the results of its own Sign, write
\* and Debit calls only.  A step of a replication goroutine changes nothing
\* of the handler; and for every position and outcome of the goroutines and
\* every error of EachNeighbor, the handler returns nil or the error of its
\* own failed call, has written the receipt for the chunk exactly when
\* signing and writing succeeded, and has debited the upstream peer for price
\* exactly when the receipt was written.
C12_ReplicationDoesNotReachHandler ==
    /\ [][(repl' # repl /\ Len(repl') = Len(repl)) =>
             UNCHANGED <<pc, herr, written, debited, closeOps, puts, result,
                         ledger, price, upstream, chunk>>]_vars
    /\ [](TerminalStored =>
            /\ pc = "h_neighbors" => written = <<>> /\ debited = <<>> /\ herr = Nil
            /\ pc = "h_sign" => written = <<>> /\ debited = <<>> /\ herr = Nil
            /\ pc = "h_receipt_write" => written = <<>> /\ debited = <<>> /\ herr = Nil
            /\ pc = "h_receipt_debit" =>
                  /\ written = <<[addr |-> chunk, sig |-> SelfAddr]>>
                  /\ debited = <<>>
                  /\ herr = Nil
            /\ pc = "done" =>
                  /\ herr \in {Nil, Err("receipt_signature", ErrOther),
                                Err("send_receipt", ErrOther), Err("debit", ErrOther)}
                  /\ written = IF herr.kind \in {"nil", "debit"}
                                 THEN <<[addr |-> chunk, sig |-> SelfAddr]>> ELSE <<>>
                  /\ debited = IF herr.kind \in {"nil", "debit"}
                                 THEN << <<upstream, price>> >> ELSE <<>>
                  /\ closeOps = <<StreamCloseAction(herr)>>)

\* the handler has answered with success while EachNeighbor returned an
\* error, one goroutine failed, one met another price and one has not run yet
C12_Witness ==
    /\ TerminalStored
    /\ pc = "done"
    /\ herr = Nil
    /\ neighborErr # Nil
    /\ Len(repl) = nPeersToPushsync
    /\ {"failed", "mismatch", "start"} \subseteq Range(repl)
    /\ debited = << <<upstream, price>> >>

\* C20: for one hop on the relay or terminal path, when the handler of the
\* receiving node and the attempt of the sending node are both over, the
\* receiver has debited the sender if and only if the sender has credited
\* the receiver.
HopOver ==
    /\ mode = "handler"
    /\ forwarded
    /\ pc = "done"
    /\ sender.pc = "done"

C20_HopAccountingSymmetric ==
    HopOver => (debited # <<>> <=> sender.credited # <<>>)

====
